---- MODULE Spec2Model ----
(***************************************************************************)
(* Update-distribution subsystem of the issue tracker: the in-memory       *)
(* broker (pkg/messaging/memory), the Kafka broker (pkg/messaging/kfkimp)  *)
(* and the StreamProjectUpdates coordinator of ProjectService              *)
(* (pkg/svc/projectsvc/project_service.go).                                *)
(*                                                                         *)
(* The variable mode fixes which component a behaviour exercises:          *)
(*   "mem"      callers of InMemoryBroker through the MessageBroker API    *)
(*   "kafka"    callers of KafkaBroker through the MessageBroker API       *)
(*   "stream"   ProjectService with COMMUNICATION_METHOD other than kafka  *)
(*   "svckafka" ProjectService with COMMUNICATION_METHOD = kafka           *)
(*   "new"      a process before NewMessageBroker ran (ProvisionSpec)      *)
(*                                                                         *)
(* IssueSpec follows CreateIssue and UpdateIssue of IssuesService          *)
(* (pkg/svc/issuessvc/issues_service.go) over the issue table.             *)
(***************************************************************************)
EXTENDS Integers, Sequences, FiniteSets, TLC

\* ------------------------------------------------------------- bounds
MaxChan == 2
MaxPub == 2
MaxCalls == 5
MaxSess == 2
MaxIssue == 2

\* capacity of every delivery channel: make(chan ..., 10)
ChanCap == 10

\* ------------------------------------------------------------- values
Modes == {"mem", "kafka", "stream", "svckafka"}
\* values of COMMUNICATION_METHOD: unset, the two documented ones, and other
\* spellings of kafka
Methods == {"", "stream", "kafka", "Kafka", "KAFKA"}
commMethodKafka == "kafka"
\* the documented value a deployment of the component sets
Configured(m) == IF m \in {"kafka", "svckafka"} THEN "kafka" ELSE "stream"
\* resource ids callers of a broker use
Projects == {"p1", "p2"}
Chans == 1..MaxChan
Sessions == 1..MaxSess
\* resource ids a client may name in a request; "" is the zero value of the field
RequestIds == {""} \cup Projects
NoReq == [action |-> "-", pid |-> ""]
Requests == [action : {"subscribe", "update"}, pid : RequestIds]
NoFault == "none"
NoCall == [op |-> "-", ret |-> "-", upd |-> "-"]
NoUnsub == [pid |-> "-", at |-> 0]
SendOnClosed == "send on closed channel"
CloseOfClosed == "close of closed channel"
\* issues: ids in the order uuid.NewString() hands them out
IssueIds == 1..MaxIssue
NoIssue == [status |-> "-", assignee |-> "", resolution |-> "UNSPECIFIED"]

VARIABLES
  mode,       \* the component exercised
  commMethod, \* the value of the environment variable COMMUNICATION_METHOD
  issues,     \* the issue table of the repository: issue id -> issue, or NoIssue
  chBuf,      \* channel -> buffered events, oldest first
  chClosed,   \* channel -> close(ch) was executed
  chMade,     \* channels made so far: 1..chMade
  nPub,       \* publishes made so far; event n carries sequence number n
  calls,      \* calls and messages the callers and clients made so far
  fault,      \* a Go runtime panic that ended the process, or NoFault
  memSubs,    \* InMemoryBroker.subscribers: resourceID -> set of channels
  kSubs,      \* KafkaBroker.subscribers: resourceID -> set of channels
  kReaders,   \* KafkaBroker.readers: resourceID -> reader
  rdMade,     \* readers made so far: 1..rdMade
  rdClosed,   \* the readers on which Close() was called
  loops,      \* reader -> its consumeMessages task: resourceID, position, message in hand
  wrClosed,   \* writer.Close() was called
  kDone,      \* k.ctx is cancelled
  closeRet,   \* what Close() returned: "-" before it, then "nil" or "err"
  log,        \* the records of topic <prefix>.projects, oldest first
  groupOff,   \* resourceID -> committed offset of group issue-tracker-project-<resourceID>
  watchers,   \* channel -> the context-watcher task Subscribe started for it
  helpers,    \* caller context -> the context-merging tasks of PublishUpdate calls still running
  ctxDone,    \* the caller contexts that are cancelled
  topic,      \* the topic exists on the cluster
  lastPub,    \* the last PublishUpdate call: write attempts made and result
  lastCall,   \* the last mutation RPC: its name, its result, and the result of the follow-up update
  svcSubs,    \* ProjectService.subscribers: resourceID -> list of channels
  hPc,        \* session -> StreamProjectUpdates: "none", "start", "loop" (handleProjectUpdates), "done"
  hRet,       \* session -> what StreamProjectUpdates returned
  gPc,        \* session -> its receive goroutine: "none", "recv", "handle", "done"
  gMsg,       \* session -> the request the goroutine has in hand
  subscribedProjectID, \* session -> the local variable of that name
  updateCh,   \* session -> the local variable of that name; 0 is nil
  inMemoryCh, \* session -> the local variable of that name; 0 is nil
  hProj,      \* session -> argument subscribedProjectID of handleProjectUpdates
  hCh,        \* session -> argument updateCh of handleProjectUpdates
  errCh,      \* session -> the content of errCh: "empty", "nil" or "err"
  sCtx,       \* session -> stream.Context(): "live", "cancelled" (client or server), "finished" (handler returned)
  subsHist,   \* history: session -> its subscriptions, each with the teardowns made for it
  got,        \* history: channel -> events its reader received, in order
  offered,    \* history: channel -> events published to a resource while the channel was registered for it
  overflow,   \* history: channel -> a send found its buffer full
  unsub       \* history: channel -> the last teardown that returned for it: resourceID, and nPub at that time

chanVars == <<chBuf, chClosed, chMade>>
histVars == <<got, offered, overflow>>
\* (unsub is framed by each action on its own)
memVars == <<memSubs>>
kState == <<kSubs, kReaders, rdMade, rdClosed, loops, wrClosed, kDone, closeRet,
            log, groupOff, watchers, helpers, ctxDone, topic>>
kVars == <<kState, lastPub>>
svcVars == <<svcSubs, hPc, hRet, gPc, gMsg, subscribedProjectID, updateCh, inMemoryCh,
             hProj, hCh, errCh, sCtx, subsHist>>
notMem == <<kVars, svcVars>>
notKafka == <<memVars, svcVars>>
vars == <<mode, commMethod, issues, lastCall, chBuf, chClosed, chMade, nPub, calls, fault, memSubs, got, offered, overflow,
          kSubs, kReaders, rdMade, rdClosed, loops, wrClosed, kDone, closeRet,
          log, groupOff, watchers, helpers, ctxDone, topic, lastPub,
          svcSubs, hPc, hRet, gPc, gMsg, subscribedProjectID, updateCh, inMemoryCh,
          hProj, hCh, errCh, sCtx, subsHist, unsub>>

\* one more call of a caller, or message of a client
Call == calls < MaxCalls /\ calls' = calls + 1

\* ------------------------------------------------------------- Go channels
Event(p, n) == [pid |-> p, n |-> n]

\* a buffer with room for one event more than the channel was made with
FullOffByOne(c) == Len(chBuf[c]) >= ChanCap + 1

\* len(ch) == cap(ch): the send case of a select is not ready
Full(c) == Len(chBuf[c]) >= ChanCap

\* select { case ch <- update: ... default: } on every channel of cs:
\* the buffers after the sends (a full channel is skipped)
SendAll(cs, e) ==
  [c \in Chans |-> IF c \in cs /\ ~Full(c) THEN Append(chBuf[c], e) ELSE chBuf[c]]

\* a Go map read with a missing key
Lookup(m, p) == IF p \in DOMAIN m THEN m[p] ELSE {}

MapPut(m, p, v) == [q \in DOMAIN m \cup {p} |-> IF q = p THEN v ELSE m[q]]

MapDelete(m, p) == [q \in DOMAIN m \ {p} |-> m[q]]

\* every channel of every entry of a registry of channel sets
AllOf(m) == UNION {m[p] : p \in DOMAIN m}

\* history: the channels of cs are offered event e
Offer(cs, e) == [c \in Chans |-> IF c \in cs THEN Append(offered[c], e) ELSE offered[c]]

NoteOverflow(cs) == [c \in Chans |-> overflow[c] \/ (c \in cs /\ Full(c))]

\* ------------------------------------------------------------- InMemoryBroker
\* Subscribe: a new buffered channel, added to the set of projectID
MemSubscribe(p) ==
  /\ mode = "mem" /\ fault = NoFault /\ Call
  /\ chMade < MaxChan
  /\ LET ch == chMade + 1 IN
       /\ chMade' = ch
       /\ memSubs' = MapPut(memSubs, p, Lookup(memSubs, p) \cup {ch})
       /\ UNCHANGED <<mode, commMethod, issues, lastCall, chBuf, chClosed, nPub, fault, got, offered, overflow, notMem>>
  /\ UNCHANGED unsub

\* the registry after Unsubscribe(projectID, ch): delete(b.subscribers, projectID)
MemAfterUnsubscribe(p, ch) == MapDelete(memSubs, p)

MemUnsubscribe(p, ch) ==
  /\ mode = "mem" /\ fault = NoFault /\ Call
  /\ ch \in 1..chMade
  /\ memSubs' = MemAfterUnsubscribe(p, ch)
  /\ UNCHANGED <<mode, commMethod, issues, lastCall, chanVars, nPub, fault, got, offered, overflow, notMem>>
  /\ unsub' = [unsub EXCEPT ![ch] = [pid |-> p, at |-> nPub]]

\* the channels a PublishUpdate under a live caller context sends to
MemTargets(p) == Lookup(memSubs, p)

\* PublishUpdate with a caller context that is not cancelled: a non-blocking
\* send to every channel of projectID, under the read lock
MemPublishUpdate(p) ==
  /\ nPub' = nPub + 1
  /\ LET e == Event(p, nPub + 1)
         cs == MemTargets(p) IN
       /\ offered' = Offer(cs, e)
       /\ IF \E c \in cs : chClosed[c]
          THEN /\ fault' = SendOnClosed
               /\ UNCHANGED <<chBuf, overflow, lastPub>>
          ELSE /\ chBuf' = SendAll(cs, e)
               /\ overflow' = NoteOverflow(cs)
               /\ lastPub' = [writes |-> 0, ret |-> "nil"]
               /\ UNCHANGED fault
  /\ UNCHANGED <<mode, commMethod, issues, lastCall, chClosed, chMade, memSubs, got, kState, svcVars>>
  /\ UNCHANGED unsub

MemPublish(p) ==
  /\ mode = "mem" /\ fault = NoFault /\ Call
  /\ nPub < MaxPub
  /\ MemPublishUpdate(p)

\* PublishUpdate with a cancelled caller context: at each channel the select
\* may take <-ctx.Done() and return ctx.Err(); the channels in done were
\* served before that
MemPublishCancelled(p) ==
  /\ mode = "mem" /\ fault = NoFault /\ Call
  /\ nPub < MaxPub
  /\ nPub' = nPub + 1
  /\ LET e == Event(p, nPub + 1)
         cs == Lookup(memSubs, p) IN
       /\ offered' = Offer(cs, e)
       /\ \E done \in SUBSET {c \in cs : ~Full(c)} :
            IF \E c \in done : chClosed[c]
            THEN /\ fault' = SendOnClosed
                 /\ UNCHANGED <<chBuf, overflow, lastPub>>
            ELSE /\ chBuf' = SendAll(done, e)
                 /\ overflow' = [c \in Chans |-> overflow[c] \/ (c \in cs \ done)]
                 /\ lastPub' = [writes |-> 0,
                                ret |-> IF done = cs THEN "nil" ELSE "ctxerr"]
                 /\ UNCHANGED fault
  /\ UNCHANGED <<mode, commMethod, issues, lastCall, chClosed, chMade, memSubs, got, kState, svcVars>>
  /\ UNCHANGED unsub

\* Close: close every registered channel, then an empty registry
MemClose ==
  /\ mode = "mem" /\ fault = NoFault /\ Call
  /\ IF \E c \in AllOf(memSubs) : chClosed[c]
     THEN /\ fault' = CloseOfClosed
          /\ UNCHANGED <<chClosed, memSubs>>
     ELSE /\ chClosed' = [c \in Chans |-> chClosed[c] \/ c \in AllOf(memSubs)]
          /\ memSubs' = << >>
          /\ UNCHANGED fault
  /\ UNCHANGED <<mode, commMethod, issues, lastCall, chBuf, chMade, nPub, histVars, notMem>>
  /\ UNCHANGED unsub

\* the holder of a channel receives its next event
Recv(c) ==
  /\ mode \in {"mem", "kafka"} /\ fault = NoFault
  /\ c \in 1..chMade
  /\ chBuf[c] # << >>
  /\ got' = [got EXCEPT ![c] = Append(@, Head(chBuf[c]))]
  /\ chBuf' = [chBuf EXCEPT ![c] = Tail(@)]
  /\ UNCHANGED <<mode, commMethod, issues, lastCall, chClosed, chMade, nPub, calls, fault, memSubs, offered, overflow, notMem>>
  /\ UNCHANGED unsub

NextMem ==
  \/ \E p \in Projects : MemSubscribe(p)
  \/ \E p \in Projects, c \in Chans : MemUnsubscribe(p, c)
  \/ \E p \in Projects : MemPublish(p)
  \/ \E p \in Projects : MemPublishCancelled(p)
  \/ MemClose
  \/ \E c \in Chans : Recv(c)

\* ------------------------------------------------------------- KafkaBroker
MaxReader == 2
MaxBurst == 12
Readers == 1..MaxReader
\* caller contexts: context.Background(), which is never cancelled, and a cancellable one
Ctxs == {"bg", "c1"}
NoMsg == Event("-", 0)
NoLoop == [pid |-> "-", pc |-> "none", msg |-> NoMsg]
NoTask == [pid |-> "-", ctx |-> "-", pc |-> "none"]

\* the context named x is done: a caller context that was cancelled, or the
\* stream context of a session after the client left or the handler returned
CtxIsDone(x) == x \in ctxDone \/ \E s \in Sessions : x = ToString(s) /\ sCtx[s] # "live"

\* Subscribe(ctx, projectID) under the write lock: a new channel; the first
\* subscriber of projectID also gets the reader and its consumeMessages task;
\* a context-watcher task is started for the channel
KafkaSubscribe(ctx, p) ==
  /\ chMade < MaxChan
  /\ LET ch == chMade + 1
         fresh == p \notin DOMAIN kSubs /\ p \notin DOMAIN kReaders IN
       /\ chMade' = ch
       /\ kSubs' = MapPut(kSubs, p, Lookup(kSubs, p) \cup {ch})
       /\ fresh => rdMade < MaxReader
       /\ IF fresh
          THEN /\ rdMade' = rdMade + 1
               /\ kReaders' = MapPut(kReaders, p, rdMade + 1)
               /\ loops' = [loops EXCEPT ![rdMade + 1] = [pid |-> p, pc |-> "read", msg |-> NoMsg]]
          ELSE UNCHANGED <<rdMade, kReaders, loops>>
       /\ watchers' = [watchers EXCEPT ![ch] = [pid |-> p, ctx |-> ctx, pc |-> "wait"]]
  /\ UNCHANGED <<chBuf, chClosed, rdClosed, wrClosed, kDone, closeRet,
                 log, groupOff, helpers, ctxDone, topic, lastPub>>

\* a removal loop that removes nothing: the fault C2 must exclude
KafkaRemovalSkipped(p, ch) == Lookup(kSubs, p)

\* the subscriber set of projectID after the removal loop of Unsubscribe(projectID, ch)
KafkaAfterRemoval(p, ch) == {}

\* Unsubscribe(ctx, projectID, ch) under the write lock, with cleanupIfNoSubscribers
KafkaUnsubscribe(p, ch) ==
  /\ IF p \notin DOMAIN kSubs
     THEN UNCHANGED <<kSubs, kReaders, rdClosed>>
     ELSE LET subs == KafkaAfterRemoval(p, ch) IN
          IF subs = {}
          THEN /\ kSubs' = MapDelete(kSubs, p)
               /\ kReaders' = MapDelete(kReaders, p)
               /\ rdClosed' = rdClosed \cup (IF p \in DOMAIN kReaders THEN {kReaders[p]} ELSE {})
          ELSE /\ kSubs' = MapPut(kSubs, p, subs)
               /\ UNCHANGED <<kReaders, rdClosed>>
  /\ UNCHANGED <<chanVars, rdMade, loops, wrClosed, kDone, closeRet,
                 log, groupOff, watchers, helpers, ctxDone, topic, lastPub>>

\* the context-watcher task of channel ch: once its context is done, it
\* deletes ch from the set of its resource (the set and the reader stay)
WatcherStep(ch) ==
  /\ fault = NoFault
  /\ watchers[ch].pc = "wait"
  /\ CtxIsDone(watchers[ch].ctx)
  /\ watchers' = [watchers EXCEPT ![ch].pc = "done"]
  /\ LET p == watchers[ch].pid IN
       kSubs' = IF p \in DOMAIN kSubs THEN MapPut(kSubs, p, kSubs[p] \ {ch}) ELSE kSubs
  /\ UNCHANGED <<chanVars, kReaders, rdMade, rdClosed, loops, wrClosed, kDone, 
                 closeRet, log, groupOff, helpers, ctxDone, topic, lastPub>>
  /\ UNCHANGED <<mode, commMethod, issues, lastCall, nPub, calls, fault, histVars, notKafka>>
  /\ UNCHANGED unsub

\* PublishUpdate(ctx, projectID, update): the context-merging task is started,
\* the record is written, and on a missing topic handlePublishError and
\* createTopicAndRetry provision the topic and write once more.
\*   w1   the first WriteMessages: "ok", "missing" (unknown topic) or "fail"
\*   prov createTopicAndRetry up to CreateTopics: "dial" (a dial or the
\*        controller lookup failed), "exists" (CreateTopics reported that the
\*        topic already exists), "error" (another CreateTopics error), "created"
\*   w2   the second WriteMessages: "ok" or "fail"
\* a publish that writes again after any failed write
RetriedAlways(w1, prov) == w1 # "ok"

\* handlePublishError and createTopicAndRetry reach the second WriteMessages:
\* the error is the unknown-topic error and CreateTopics returned no error
Retried(w1, prov) == w1 = "missing" /\ prov = "created"

KafkaPublish(ctx, p, w1, prov, w2) ==
  /\ nPub' = nPub + 1
  /\ helpers' = [helpers EXCEPT ![ctx] = @ + 1]
  /\ w1 = "ok" => topic /\ ~wrClosed
  /\ w1 = "missing" => ~topic /\ ~wrClosed
  /\ prov = "exists" => w1 = "missing"
  /\ LET e == Event(p, nPub + 1)
         retried == Retried(w1, prov)
         written == w1 = "ok" \/ (retried /\ w2 = "ok") IN
       /\ topic' = (topic \/ (w1 = "missing" /\ prov \in {"created", "exists"}))
       /\ log' = IF written THEN Append(log, e) ELSE log
       /\ offered' = IF written THEN Offer(Lookup(kSubs, p), e) ELSE offered
       /\ lastPub' = [writes |-> IF retried THEN 2 ELSE 1,
                      ret |-> IF written THEN "nil" ELSE "err"]
  /\ UNCHANGED <<chanVars, kSubs, kReaders, rdMade, rdClosed, loops, wrClosed, kDone,
                 closeRet, groupOff, watchers, ctxDone>>

\* a context-merging task started under caller context x ends when k.ctx or
\* x is done
HelperStep(x) ==
  /\ fault = NoFault
  /\ helpers[x] > 0
  /\ kDone \/ CtxIsDone(x)
  /\ helpers' = [helpers EXCEPT ![x] = @ - 1]
  /\ UNCHANGED <<chanVars, kSubs, kReaders, rdMade, rdClosed, loops, wrClosed, kDone, 
                 closeRet, log, groupOff, watchers, ctxDone, topic, lastPub>>
  /\ UNCHANGED <<mode, commMethod, issues, lastCall, nPub, calls, fault, histVars, notKafka>>
  /\ UNCHANGED unsub

\* a loop that hands on every record it reads
KeyMatchesAny(m, p) == TRUE

\* string(msg.Key) == projectID
KeyMatches(m, p) == m.pid = p

\* consumeMessages of reader r at its select: return when k.ctx is done,
\* else ReadMessage, which takes the record at the group's committed offset
\* and commits; a record of another key is discarded
LoopRead(r) ==
  /\ fault = NoFault
  /\ loops[r].pc = "read"
  /\ LET p == loops[r].pid IN
       IF kDone
       THEN /\ loops' = [loops EXCEPT ![r].pc = "done"]
            /\ UNCHANGED groupOff
       ELSE /\ r \notin rdClosed
            /\ groupOff[p] < Len(log)
            /\ groupOff' = [groupOff EXCEPT ![p] = @ + 1]
            /\ LET m == log[groupOff[p] + 1] IN
                 loops' = IF KeyMatches(m, p)
                          THEN [loops EXCEPT ![r] = [pid |-> p, pc |-> "dist", msg |-> m]]
                          ELSE loops
  /\ UNCHANGED <<chanVars, kSubs, kReaders, rdMade, rdClosed, wrClosed, kDone, 
                 closeRet, log, watchers, helpers, ctxDone, topic, lastPub>>
  /\ UNCHANGED <<mode, commMethod, issues, lastCall, nPub, calls, fault, histVars, notKafka>>
  /\ UNCHANGED unsub

\* the channels distributeUpdate(projectID, update) sends to
KafkaTargets(p) == Lookup(kSubs, p)

\* distributeUpdate of the message in hand, under the read lock
LoopDistribute(r) ==
  /\ fault = NoFault
  /\ loops[r].pc = "dist"
  /\ loops' = [loops EXCEPT ![r] = [pid |-> @.pid, pc |-> "read", msg |-> NoMsg]]
  /\ LET cs == KafkaTargets(loops[r].pid) IN
       IF \E c \in cs : chClosed[c]
       THEN /\ fault' = SendOnClosed
            /\ UNCHANGED <<chBuf, overflow>>
       ELSE /\ chBuf' = SendAll(cs, loops[r].msg)
            /\ overflow' = NoteOverflow(cs)
            /\ UNCHANGED fault
  /\ UNCHANGED <<chClosed, chMade, kSubs, kReaders, rdMade, rdClosed, wrClosed, kDone, 
                 closeRet, log, groupOff, watchers, helpers, ctxDone, topic, lastPub>>
  /\ UNCHANGED <<mode, commMethod, issues, lastCall, nPub, calls, got, offered, notKafka>>
  /\ UNCHANGED unsub

\* Close(): k.cancel(), then under the write lock the writer, the readers and
\* the channels; an error of a Close() returns at once.
\*   res    "nil", "writer" (writer.Close() failed) or "reader" (a reader.Close() failed)
\*   before the readers closed before the failing one
KafkaClose(res, before) ==
  /\ kDone' = TRUE
  /\ LET rs == {kReaders[p] : p \in DOMAIN kReaders} IN
       /\ res = "reader" => before \subseteq rs /\ before # rs
       /\ res # "reader" => before = {}
       /\ closeRet' = IF res = "nil" THEN "nil" ELSE "err"
       /\ wrClosed' = (wrClosed \/ res # "writer")
       /\ rdClosed' = rdClosed \cup (IF res = "nil" THEN rs ELSE before)
       /\ IF res = "nil"
          THEN IF \E c \in AllOf(kSubs) : chClosed[c]
               THEN /\ fault' = CloseOfClosed
                    /\ UNCHANGED chClosed
               ELSE /\ chClosed' = [c \in Chans |-> chClosed[c] \/ c \in AllOf(kSubs)]
                    /\ UNCHANGED fault
          ELSE UNCHANGED <<chClosed, fault>>
  /\ UNCHANGED <<chBuf, chMade, kSubs, kReaders, rdMade, loops,
                 log, groupOff, watchers, helpers, ctxDone, topic, lastPub>>

\* --- callers of the broker API
KSubscribe(ctx, p) ==
  /\ mode = "kafka" /\ fault = NoFault /\ closeRet = "-" /\ Call
  /\ KafkaSubscribe(ctx, p)
  /\ UNCHANGED <<mode, commMethod, issues, lastCall, nPub, fault, got, offered, overflow, notKafka>>
  /\ UNCHANGED unsub

KUnsubscribe(p, ch) ==
  /\ mode = "kafka" /\ fault = NoFault /\ closeRet = "-" /\ Call
  /\ ch \in 1..chMade
  /\ KafkaUnsubscribe(p, ch)
  /\ UNCHANGED <<mode, commMethod, issues, lastCall, nPub, fault, got, offered, overflow, notKafka>>
  /\ unsub' = [unsub EXCEPT ![ch] = [pid |-> p, at |-> nPub]]

KPublish(ctx, p) ==
  /\ mode = "kafka" /\ fault = NoFault /\ closeRet = "-" /\ Call
  /\ nPub < MaxPub
  /\ KafkaPublish(ctx, p, IF wrClosed THEN "fail" ELSE "ok", "dial", "ok")
  /\ UNCHANGED <<mode, commMethod, issues, lastCall, fault, got, overflow, notKafka>>
  /\ UNCHANGED unsub

\* Close is called once; its callers make no other call on the closed broker
KClose ==
  /\ mode = "kafka" /\ fault = NoFault /\ Call
  /\ closeRet = "-"
  /\ \E res \in {"nil", "writer", "reader"}, before \in SUBSET Readers :
       KafkaClose(res, before)
  /\ UNCHANGED <<mode, commMethod, issues, lastCall, nPub, got, offered, overflow, notKafka>>
  /\ UNCHANGED unsub

\* the holder of a cancellable context cancels it
CancelCtx(x) ==
  /\ mode = "kafka" /\ fault = NoFault /\ Call
  /\ x \in Ctxs \ {"bg"}
  /\ x \notin ctxDone
  /\ ctxDone' = ctxDone \cup {x}
  /\ UNCHANGED <<chanVars, kSubs, kReaders, rdMade, rdClosed, loops, wrClosed, kDone, 
                 closeRet, log, groupOff, watchers, helpers, topic, lastPub>>
  /\ UNCHANGED <<mode, commMethod, issues, lastCall, nPub, fault, got, offered, overflow, notKafka>>
  /\ UNCHANGED unsub

NextKafka ==
  \/ \E x \in Ctxs, p \in Projects : KSubscribe(x, p)
  \/ \E p \in Projects, c \in Chans : KUnsubscribe(p, c)
  \/ \E p \in Projects : KPublish("bg", p)
  \/ KClose
  \/ \E x \in Ctxs : CancelCtx(x)
  \/ \E c \in Chans : WatcherStep(c)
  \/ \E x \in Ctxs : HelperStep(x)
  \/ \E r \in Readers : LoopRead(r)
  \/ \E r \in Readers : LoopDistribute(r)
  \/ \E c \in Chans : Recv(c)

\* ------------------------------------------------------------- ProjectService
Range(q) == {q[i] : i \in 1..Len(q)}

\* s.subscribers[projectID]: a missing key reads as the nil slice
LookupList(m, p) == IF p \in DOMAIN m THEN m[p] ELSE << >>

\* the registry after addSubscriber(projectID, ch)
addSubscriber(m, p, ch) == MapPut(m, p, Append(LookupList(m, p), ch))

RemoveFirst(q, ch) ==
  LET is == {i \in 1..Len(q) : q[i] = ch} IN
    IF is = {} THEN q
    ELSE LET i == CHOOSE k \in is : \A j \in is : k <= j IN
           SubSeq(q, 1, i - 1) \o SubSeq(q, i + 1, Len(q))

\* the registry after removeSubscriber(projectID, ch): the first occurrence
\* of ch leaves the list of projectID; the entry stays
removeSubscriber(m, p, ch) ==
  IF ch \in Range(LookupList(m, p)) THEN MapPut(m, p, RemoveFirst(m[p], ch)) ELSE m

\* the channels registered in ProjectService.subscribers
AllListed(m) == UNION {Range(m[p]) : p \in DOMAIN m}

\* for _, ch := range projectSubs { select { case ch <- update: default: } }
RECURSIVE SendList(_, _, _)
SendList(buf, q, e) ==
  IF q = << >> THEN buf
  ELSE LET c == Head(q) IN
         SendList(IF Len(buf[c]) < ChanCap THEN [buf EXCEPT ![c] = Append(@, e)] ELSE buf,
                  Tail(q), e)

\* stream.Context() of session s, as the caller context of Subscribe
SessCtx(s) == ToString(s)

\* history: a subscription of a session, and a teardown made for it
Sub(p, ch) == [pid |-> p, ch |-> ch, torn |-> 0]

Torn(h, p, ch) ==
  LET is == {i \in 1..Len(h) : h[i].pid = p /\ h[i].ch = ch} IN
    IF is = {} THEN h
    ELSE LET i == CHOOSE k \in is : \A j \in is : k >= j IN
           [h EXCEPT ![i].torn = @ + 1]

\* notifySubscribers(projectID, update): PublishUpdate under
\* context.Background() with kafka, else a non-blocking send to every channel
\* of the list of projectID under the read lock
notifySubscribers(p) ==
  IF mode = "svckafka"
  THEN /\ KafkaPublish("bg", p, IF wrClosed THEN "fail" ELSE "ok", "dial", "ok")
       /\ UNCHANGED <<svcSubs, fault, overflow>>
  ELSE /\ nPub' = nPub + 1
       /\ LET q == LookupList(svcSubs, p)
              e == Event(p, nPub + 1) IN
            /\ offered' = Offer(Range(q), e)
            /\ IF \E c \in Range(q) : chClosed[c]
               THEN /\ fault' = SendOnClosed
                    /\ UNCHANGED <<chBuf, overflow>>
               ELSE /\ chBuf' = SendList(chBuf, q, e)
                    /\ overflow' = NoteOverflow(Range(q))
                    /\ UNCHANGED fault
       /\ UNCHANGED <<chClosed, chMade, kVars, svcSubs>>

\* StreamProjectUpdates returns ret: the stream context ends with the handler
Return(s, ret) ==
  /\ hPc' = [hPc EXCEPT ![s] = "done"]
  /\ hRet' = [hRet EXCEPT ![s] = ret]
  /\ sCtx' = [sCtx EXCEPT ![s] = IF @ = "live" THEN "finished" ELSE @]

\* defer close(inMemoryCh)
DeferredClose(s) ==
  chClosed' = IF inMemoryCh[s] # 0 THEN [chClosed EXCEPT ![inMemoryCh[s]] = TRUE] ELSE chClosed

\* a client opens a stream: StreamProjectUpdates up to the start of its
\* receive goroutine
SessOpen(s) ==
  /\ mode \in {"stream", "svckafka"} /\ fault = NoFault /\ Call
  /\ hPc[s] = "none"
  /\ IF s = 1 THEN TRUE ELSE hPc[s - 1] # "none"
  /\ hPc' = [hPc EXCEPT ![s] = "start"]
  /\ gPc' = [gPc EXCEPT ![s] = "recv"]
  /\ IF mode = "stream"
     THEN /\ chMade < MaxChan
          /\ chMade' = chMade + 1
          /\ inMemoryCh' = [inMemoryCh EXCEPT ![s] = chMade + 1]
          /\ updateCh' = [updateCh EXCEPT ![s] = chMade + 1]
     ELSE UNCHANGED <<chMade, inMemoryCh, updateCh>>
  /\ UNCHANGED <<mode, commMethod, issues, lastCall, chBuf, chClosed, nPub, fault, memSubs, kSubs, kReaders, rdMade,
                 rdClosed, loops, wrClosed, kDone, closeRet, log, groupOff, watchers, helpers,
                 ctxDone, topic, lastPub, svcSubs, hRet, gMsg, subscribedProjectID, hProj, hCh,
                 errCh, sCtx, subsHist, got, offered, overflow>>
  /\ UNCHANGED unsub

\* stream.Recv() returns request m of the client
SessRecv(s, m) ==
  /\ mode \in {"stream", "svckafka"} /\ fault = NoFault /\ Call
  /\ gPc[s] = "recv"
  /\ sCtx[s] = "live"
  /\ gPc' = [gPc EXCEPT ![s] = "handle"]
  /\ gMsg' = [gMsg EXCEPT ![s] = m]
  /\ UNCHANGED <<mode, commMethod, issues, lastCall, chBuf, chClosed, chMade, nPub, fault, memSubs, kSubs, kReaders, rdMade,
                 rdClosed, loops, wrClosed, kDone, closeRet, log, groupOff, watchers, helpers,
                 ctxDone, topic, lastPub, svcSubs, hPc, hRet, subscribedProjectID, updateCh,
                 inMemoryCh, hProj, hCh, errCh, sCtx, subsHist, got, offered, overflow>>
  /\ UNCHANGED unsub

\* the client closed its side: stream.Recv() returns io.EOF, errCh <- nil
SessEOF(s) ==
  /\ mode \in {"stream", "svckafka"} /\ fault = NoFault /\ Call
  /\ gPc[s] = "recv"
  /\ sCtx[s] = "live"
  /\ gPc' = [gPc EXCEPT ![s] = "done"]
  /\ errCh' = [errCh EXCEPT ![s] = "nil"]
  /\ UNCHANGED <<mode, commMethod, issues, lastCall, chBuf, chClosed, chMade, nPub, fault, memSubs, kSubs, kReaders, rdMade,
                 rdClosed, loops, wrClosed, kDone, closeRet, log, groupOff, watchers, helpers,
                 ctxDone, topic, lastPub, svcSubs, hPc, hRet, gMsg, subscribedProjectID,
                 updateCh, inMemoryCh, hProj, hCh, sCtx, subsHist, got, offered, overflow>>
  /\ UNCHANGED unsub

\* stream.Recv() on an ended stream context returns an error, errCh <- err
SessRecvErr(s) ==
  /\ mode \in {"stream", "svckafka"} /\ fault = NoFault
  /\ gPc[s] = "recv"
  /\ sCtx[s] # "live"
  /\ gPc' = [gPc EXCEPT ![s] = "done"]
  /\ errCh' = [errCh EXCEPT ![s] = "err"]
  /\ UNCHANGED <<mode, commMethod, issues, lastCall, chBuf, chClosed, chMade, nPub, calls, fault, memSubs, kSubs, kReaders,
                 rdMade, rdClosed, loops, wrClosed, kDone, closeRet, log, groupOff, watchers,
                 helpers, ctxDone, topic, lastPub, svcSubs, hPc, hRet, gMsg,
                 subscribedProjectID, updateCh, inMemoryCh, hProj, hCh, sCtx, subsHist, got,
                 offered, overflow>>
  /\ UNCHANGED unsub

\* the client disconnects or its deadline passes: the stream context is cancelled
SessCancel(s) ==
  /\ mode \in {"stream", "svckafka"} /\ fault = NoFault /\ Call
  /\ hPc[s] # "none"
  /\ sCtx[s] = "live"
  /\ sCtx' = [sCtx EXCEPT ![s] = "cancelled"]
  /\ UNCHANGED <<mode, commMethod, issues, lastCall, chBuf, chClosed, chMade, nPub, fault, memSubs, kSubs, kReaders, rdMade,
                 rdClosed, loops, wrClosed, kDone, closeRet, log, groupOff, watchers, helpers,
                 ctxDone, topic, lastPub, svcSubs, hPc, hRet, gPc, gMsg, subscribedProjectID,
                 updateCh, inMemoryCh, hProj, hCh, errCh, subsHist, got, offered, overflow>>
  /\ UNCHANGED unsub

\* case "subscribe", first half: if subscribedProjectID != "" the previous
\* subscription is cleaned up
SessCleanup(s) ==
  /\ mode \in {"stream", "svckafka"} /\ fault = NoFault
  /\ gPc[s] = "handle"
  /\ gMsg[s].action = "subscribe"
  /\ gPc' = [gPc EXCEPT ![s] = "sub"]
  /\ LET old == subscribedProjectID[s] IN
       IF old = "" \/ (mode = "svckafka" /\ updateCh[s] = 0)
       THEN UNCHANGED <<chanVars, kVars, svcSubs, subsHist, unsub>>
       ELSE IF mode = "svckafka"
       THEN /\ KafkaUnsubscribe(old, updateCh[s])
            /\ subsHist' = [subsHist EXCEPT ![s] = Torn(@, old, updateCh[s])]
            /\ unsub' = [unsub EXCEPT ![updateCh[s]] = [pid |-> old, at |-> nPub]]
            /\ UNCHANGED svcSubs
       ELSE /\ svcSubs' = removeSubscriber(svcSubs, old, inMemoryCh[s])
            /\ subsHist' = [subsHist EXCEPT ![s] = Torn(@, old, inMemoryCh[s])]
            /\ unsub' = [unsub EXCEPT ![inMemoryCh[s]] = [pid |-> old, at |-> nPub]]
            /\ UNCHANGED <<chanVars, kVars>>
  /\ UNCHANGED <<mode, commMethod, issues, lastCall, nPub, calls, fault, memSubs, hPc, hRet, gMsg, subscribedProjectID,
                 updateCh, inMemoryCh, hProj, hCh, errCh, sCtx, got, offered, overflow>>

\* case "subscribe", second half: subscribedProjectID = req.ProjectId, then
\* Subscribe at the broker (updateCh = kCh) or addSubscriber
SessSubscribe(s) ==
  /\ mode \in {"stream", "svckafka"} /\ fault = NoFault
  /\ gPc[s] = "sub"
  /\ gPc' = [gPc EXCEPT ![s] = "recv"]
  /\ gMsg' = [gMsg EXCEPT ![s] = NoReq]
  /\ LET p == gMsg[s].pid IN
       /\ subscribedProjectID' = [subscribedProjectID EXCEPT ![s] = p]
       /\ IF mode = "svckafka"
          THEN /\ KafkaSubscribe(SessCtx(s), p)
               /\ updateCh' = [updateCh EXCEPT ![s] = chMade + 1]
               /\ subsHist' = [subsHist EXCEPT ![s] = Append(@, Sub(p, chMade + 1))]
               /\ UNCHANGED <<svcSubs, unsub>>
          ELSE /\ svcSubs' = addSubscriber(svcSubs, p, inMemoryCh[s])
               /\ subsHist' = [subsHist EXCEPT ![s] = Append(@, Sub(p, inMemoryCh[s]))]
               /\ unsub' = [unsub EXCEPT ![inMemoryCh[s]] = IF @.pid = p THEN NoUnsub ELSE @]
               /\ UNCHANGED <<chanVars, kVars, updateCh>>
  /\ UNCHANGED <<mode, commMethod, issues, lastCall, nPub, calls, fault, memSubs, hPc, hRet, inMemoryCh, hProj, hCh, errCh,
                 sCtx, got, offered, overflow>>

\* an update handler without the subscription test: every update for an
\* existing project is published
UpdateAcceptedAny(s, p) == p \in Projects

\* req.ProjectId == subscribedProjectID, and ReadProject finds the project
\* (project ids are generated, the empty id names no project)
UpdateAccepted(s, p) == p = subscribedProjectID[s] /\ p \in Projects

\* case "update": ignored unless req.ProjectId == subscribedProjectID; when
\* ReadProject finds the project, notifySubscribers
SessUpdate(s) ==
  /\ mode \in {"stream", "svckafka"} /\ fault = NoFault
  /\ gPc[s] = "handle"
  /\ gMsg[s].action = "update"
  /\ gPc' = [gPc EXCEPT ![s] = "recv"]
  /\ gMsg' = [gMsg EXCEPT ![s] = NoReq]
  /\ LET p == gMsg[s].pid IN
       IF UpdateAccepted(s, p)
       THEN nPub < MaxPub /\ notifySubscribers(p)
       ELSE UNCHANGED <<nPub, fault, offered, overflow, svcSubs, kVars, chanVars>>
  /\ UNCHANGED <<mode, commMethod, issues, lastCall, calls, memSubs, hPc, hRet, subscribedProjectID, updateCh, inMemoryCh,
                 hProj, hCh, errCh, sCtx, subsHist, got>>
  /\ UNCHANGED unsub

\* if updateCh != nil { return s.handleProjectUpdates(ctx, stream, updateCh,
\* errCh, subscribedProjectID, inMemoryCh) }; return nil.  The locals are read
\* while the receive goroutine may be writing them.
SessEnter(s) ==
  /\ mode \in {"stream", "svckafka"} /\ fault = NoFault
  /\ hPc[s] = "start"
  /\ IF updateCh[s] # 0
     THEN /\ hPc' = [hPc EXCEPT ![s] = "loop"]
          /\ hProj' = [hProj EXCEPT ![s] = subscribedProjectID[s]]
          /\ hCh' = [hCh EXCEPT ![s] = updateCh[s]]
          /\ UNCHANGED <<hRet, sCtx, chClosed>>
     ELSE /\ Return(s, "nil")
          /\ DeferredClose(s)
          /\ UNCHANGED <<hProj, hCh>>
  /\ UNCHANGED <<mode, commMethod, issues, lastCall, chBuf, chMade, nPub, calls, fault, memSubs, kSubs, kReaders, rdMade,
                 rdClosed, loops, wrClosed, kDone, closeRet, log, groupOff, watchers, helpers,
                 ctxDone, topic, lastPub, svcSubs, gPc, gMsg, subscribedProjectID, updateCh,
                 inMemoryCh, errCh, subsHist, got, offered, overflow>>
  /\ UNCHANGED unsub

\* handleProjectUpdates, case update := <-updateCh: stream.Send(update)
\* succeeds (ok) or fails
SessDeliver(s, ok) ==
  /\ mode \in {"stream", "svckafka"} /\ fault = NoFault
  /\ hPc[s] = "loop"
  /\ chBuf[hCh[s]] # << >>
  /\ ok => sCtx[s] = "live"
  /\ chBuf' = [chBuf EXCEPT ![hCh[s]] = Tail(@)]
  /\ IF ok
     THEN /\ got' = [got EXCEPT ![hCh[s]] = Append(@, Head(chBuf[hCh[s]]))]
          /\ UNCHANGED hPc
     ELSE /\ hPc' = [hPc EXCEPT ![s] = "failed"]
          /\ UNCHANGED got
  /\ UNCHANGED <<mode, commMethod, issues, lastCall, chClosed, chMade, nPub, calls, fault, memSubs, kSubs, kReaders, rdMade,
                 rdClosed, loops, wrClosed, kDone, closeRet, log, groupOff, watchers, helpers,
                 ctxDone, topic, lastPub, svcSubs, hRet, gPc, gMsg, subscribedProjectID,
                 updateCh, inMemoryCh, hProj, hCh, errCh, sCtx, subsHist, offered, overflow>>
  /\ UNCHANGED unsub

\* handleProjectUpdates after a failed Send: clean up the subscription named
\* by the arguments, return err
SessSendFailed(s) ==
  /\ mode \in {"stream", "svckafka"} /\ fault = NoFault
  /\ hPc[s] = "failed"
  /\ Return(s, "senderr")
  /\ IF mode = "svckafka"
     THEN /\ KafkaUnsubscribe(hProj[s], hCh[s])
          /\ subsHist' = [subsHist EXCEPT ![s] = Torn(@, hProj[s], hCh[s])]
          /\ unsub' = [unsub EXCEPT ![hCh[s]] = [pid |-> hProj[s], at |-> nPub]]
          /\ UNCHANGED svcSubs
     ELSE /\ svcSubs' = removeSubscriber(svcSubs, hProj[s], inMemoryCh[s])
          /\ subsHist' = [subsHist EXCEPT ![s] = Torn(@, hProj[s], inMemoryCh[s])]
          /\ unsub' = [unsub EXCEPT ![inMemoryCh[s]] = [pid |-> hProj[s], at |-> nPub]]
          /\ DeferredClose(s)
          /\ UNCHANGED <<chBuf, chMade, kVars>>
  /\ UNCHANGED <<mode, commMethod, issues, lastCall, nPub, calls, fault, memSubs, gPc, gMsg, subscribedProjectID, updateCh,
                 inMemoryCh, hProj, hCh, errCh, got, offered, overflow>>

\* handleProjectUpdates, case update, ok := <-updateCh with !ok: return nil
SessChanClosed(s) ==
  /\ mode \in {"stream", "svckafka"} /\ fault = NoFault
  /\ hPc[s] = "loop"
  /\ chBuf[hCh[s]] = << >> /\ chClosed[hCh[s]]
  /\ Return(s, "nil")
  /\ DeferredClose(s)
  /\ UNCHANGED <<mode, commMethod, issues, lastCall, chBuf, chMade, nPub, calls, fault, memSubs, kSubs, kReaders, rdMade,
                 rdClosed, loops, wrClosed, kDone, closeRet, log, groupOff, watchers, helpers,
                 ctxDone, topic, lastPub, svcSubs, gPc, gMsg, subscribedProjectID, updateCh,
                 inMemoryCh, hProj, hCh, errCh, subsHist, got, offered, overflow>>
  /\ UNCHANGED unsub

\* handleProjectUpdates, case err := <-errCh: return err
SessErrCh(s) ==
  /\ mode \in {"stream", "svckafka"} /\ fault = NoFault
  /\ hPc[s] = "loop"
  /\ errCh[s] # "empty"
  /\ errCh' = [errCh EXCEPT ![s] = "empty"]
  /\ Return(s, errCh[s])
  /\ DeferredClose(s)
  /\ UNCHANGED <<mode, commMethod, issues, lastCall, chBuf, chMade, nPub, calls, fault, memSubs, kSubs, kReaders, rdMade,
                 rdClosed, loops, wrClosed, kDone, closeRet, log, groupOff, watchers, helpers,
                 ctxDone, topic, lastPub, svcSubs, gPc, gMsg, subscribedProjectID, updateCh,
                 inMemoryCh, hProj, hCh, subsHist, got, offered, overflow>>
  /\ UNCHANGED unsub

\* handleProjectUpdates, case <-ctx.Done(): return ctx.Err()
SessCtxDone(s) ==
  /\ mode \in {"stream", "svckafka"} /\ fault = NoFault
  /\ hPc[s] = "loop"
  /\ sCtx[s] = "cancelled"
  /\ Return(s, "ctxerr")
  /\ DeferredClose(s)
  /\ UNCHANGED <<mode, commMethod, issues, lastCall, chBuf, chMade, nPub, calls, fault, memSubs, kSubs, kReaders, rdMade,
                 rdClosed, loops, wrClosed, kDone, closeRet, log, groupOff, watchers, helpers,
                 ctxDone, topic, lastPub, svcSubs, gPc, gMsg, subscribedProjectID, updateCh,
                 inMemoryCh, hProj, hCh, errCh, subsHist, got, offered, overflow>>
  /\ UNCHANGED unsub

\* UpdateProjectWithIssue(projectID, issueID): AddIssueToProject, ReadProject,
\* then notifySubscribers, whose outcome is not looked at.
\*   repo  "ok", or the repository call that fails: "add" or "read"
UpdateProjectWithIssue(p, repo) ==
  IF repo = "ok"
  THEN nPub < MaxPub /\ notifySubscribers(p)
  ELSE UNCHANGED <<nPub, fault, offered, overflow, svcSubs, kVars, chanVars>>

\* what UpdateProjectWithIssue returns
UpdateResult(repo) == IF repo = "ok" THEN "ok" ELSE "err"

\* what a call returned whose body ended with the primed fault
Returned(ret) == IF fault' = NoFault THEN ret ELSE "panic"

\* the UpdateProjectWithIssue RPC with a repository that works
SvcUpdateProjectWithIssue(p) ==
  /\ mode \in {"stream", "svckafka"} /\ fault = NoFault /\ Call
  /\ UpdateProjectWithIssue(p, "ok")
  /\ lastCall' = [op |-> "UpdateProjectWithIssue", ret |-> Returned(UpdateResult("ok")),
                  upd |-> "-"]
  /\ UNCHANGED <<mode, commMethod, issues, memSubs, hPc, hRet, gPc, gMsg, subscribedProjectID, updateCh,
                 inMemoryCh, hProj, hCh, errCh, sCtx, subsHist, got>>
  /\ UNCHANGED unsub

\* IssuesService.CreateIssue for an existing project, after the issue was
\* saved: notifyProjectService calls UpdateProjectWithIssue, an error of which
\* is logged, and the issue is returned
IssCreateIssue(p, repo) ==
  /\ mode \in {"stream", "svckafka"} /\ fault = NoFault /\ Call
  /\ UpdateProjectWithIssue(p, repo)
  /\ lastCall' = [op |-> "CreateIssue", ret |-> Returned("ok"),
                  upd |-> Returned(UpdateResult(repo))]
  /\ UNCHANGED <<mode, commMethod, issues, memSubs, hPc, hRet, gPc, gMsg, subscribedProjectID, updateCh,
                 inMemoryCh, hProj, hCh, errCh, sCtx, subsHist, got>>
  /\ UNCHANGED unsub

\* ProjectService.Close(): messageBroker.Close(), called once by
\* Application.Shutdown.  With kafka it is KafkaBroker.Close(); the in-memory
\* broker the service holds never had a subscriber (sessions register in
\* ProjectService.subscribers), so its Close finds nothing to close.
SvcClose ==
  /\ mode \in {"stream", "svckafka"} /\ fault = NoFault /\ Call
  /\ closeRet = "-"
  /\ IF mode = "svckafka"
       THEN \E res \in {"nil", "writer", "reader"}, before \in SUBSET Readers :
              KafkaClose(res, before)
       ELSE /\ closeRet' = "nil"
            /\ UNCHANGED <<chanVars, kSubs, kReaders, rdMade, rdClosed, loops, wrClosed,
                           kDone, log, groupOff, watchers, helpers, ctxDone, topic,
                           lastPub, fault>>
  /\ UNCHANGED <<mode, commMethod, issues, lastCall, nPub, memSubs, svcSubs, hPc, hRet, gPc, gMsg, subscribedProjectID,
                 updateCh, inMemoryCh, hProj, hCh, errCh, sCtx, subsHist, got, offered,
                 overflow>>
  /\ UNCHANGED unsub

NextSvc ==
  \/ \E s \in Sessions : SessOpen(s)
  \/ \E s \in Sessions, m \in Requests : SessRecv(s, m)
  \/ \E s \in Sessions : SessEOF(s)
  \/ \E s \in Sessions : SessRecvErr(s)
  \/ \E s \in Sessions : SessCancel(s)
  \/ \E s \in Sessions : SessCleanup(s)
  \/ \E s \in Sessions : SessSubscribe(s)
  \/ \E s \in Sessions : SessUpdate(s)
  \/ \E s \in Sessions : SessEnter(s)
  \/ \E s \in Sessions, ok \in BOOLEAN : SessDeliver(s, ok)
  \/ \E s \in Sessions : SessSendFailed(s)
  \/ \E s \in Sessions : SessChanClosed(s)
  \/ \E s \in Sessions : SessErrCh(s)
  \/ \E s \in Sessions : SessCtxDone(s)
  \/ \E p \in Projects : SvcUpdateProjectWithIssue(p)
  \/ \E p \in Projects, repo \in {"ok", "add", "read"} : IssCreateIssue(p, repo)
  \/ SvcClose

\* ------------------------------------------------------------- specification
\* the brokers and the project service right after construction
InitBrokers ==
  /\ chBuf = [c \in Chans |-> << >>]
  /\ chClosed = [c \in Chans |-> FALSE]
  /\ chMade = 0
  /\ nPub = 0
  /\ calls = 0
  /\ fault = NoFault
  /\ memSubs = << >>
  /\ kSubs = << >>
  /\ kReaders = << >>
  /\ rdMade = 0
  /\ rdClosed = {}
  /\ loops = [r \in Readers |-> NoLoop]
  /\ wrClosed = FALSE
  /\ kDone = FALSE
  /\ closeRet = "-"
  /\ log = << >>
  /\ groupOff = [p \in RequestIds |-> 0]
  /\ watchers = [c \in Chans |-> NoTask]
  /\ helpers = [x \in Ctxs |-> 0]
  /\ ctxDone = {}
  /\ topic = TRUE
  /\ lastPub = [writes |-> 0, ret |-> "-"]
  /\ lastCall = NoCall
  /\ svcSubs = << >>
  /\ hPc = [s \in Sessions |-> "none"]
  /\ hRet = [s \in Sessions |-> "-"]
  /\ gPc = [s \in Sessions |-> "none"]
  /\ gMsg = [s \in Sessions |-> NoReq]
  /\ subscribedProjectID = [s \in Sessions |-> ""]
  /\ updateCh = [s \in Sessions |-> 0]
  /\ inMemoryCh = [s \in Sessions |-> 0]
  /\ hProj = [s \in Sessions |-> ""]
  /\ hCh = [s \in Sessions |-> 0]
  /\ errCh = [s \in Sessions |-> "empty"]
  /\ sCtx = [s \in Sessions |-> "live"]
  /\ subsHist = [s \in Sessions |-> << >>]
  /\ got = [c \in Chans |-> << >>]
  /\ offered = [c \in Chans |-> << >>]
  /\ overflow = [c \in Chans |-> FALSE]
  /\ unsub = [c \in Chans |-> NoUnsub]

InitState == issues = [i \in IssueIds |-> NoIssue] /\ InitBrokers

\* a service or a broker that NewMessageBroker has built, over a cluster that
\* was reachable and holds the topic
Init == mode \in Modes /\ commMethod = Configured(mode) /\ InitState

Next == NextMem \/ NextKafka \/ NextSvc

Spec == Init /\ [][Next]_vars

\* the durable broker alone, with the scheduling Go gives its background
\* tasks: a goroutine that can take a step eventually takes it.  Nothing
\* obliges a caller to cancel its context.
InitKafka == Init /\ mode = "kafka"

TaskFairness ==
  /\ \A c \in Chans : WF_vars(WatcherStep(c))
  /\ \A x \in Ctxs : WF_vars(HelperStep(x))
  /\ \A r \in Readers : WF_vars(LoopRead(r))
  /\ \A r \in Readers : WF_vars(LoopDistribute(r))

FairKafka == InitKafka /\ [][NextKafka]_vars /\ TaskFairness

\* the project service with its sessions, in-process or over kafka, with the
\* scheduling Go gives goroutines: the stream handler, the receive goroutine
\* and the broker's tasks take the steps they can take.  Nothing obliges a
\* client to send, to end its stream or to cancel.
InitSvc == Init /\ mode \in {"stream", "svckafka"}

NextSvcTasks ==
  \/ NextSvc
  \/ \E c \in Chans : WatcherStep(c)
  \/ \E x \in Ctxs : HelperStep(x)
  \/ \E r \in Readers : LoopRead(r)
  \/ \E r \in Readers : LoopDistribute(r)

SessFairness ==
  /\ \A s \in Sessions : WF_vars(SessEnter(s))
  /\ \A s \in Sessions : WF_vars(\E ok \in BOOLEAN : SessDeliver(s, ok))
  /\ \A s \in Sessions : WF_vars(SessSendFailed(s))
  /\ \A s \in Sessions : WF_vars(SessChanClosed(s))
  /\ \A s \in Sessions : WF_vars(SessErrCh(s))
  /\ \A s \in Sessions : WF_vars(SessCtxDone(s))
  /\ \A s \in Sessions : WF_vars(SessCleanup(s))
  /\ \A s \in Sessions : WF_vars(SessSubscribe(s))
  /\ \A s \in Sessions : WF_vars(SessUpdate(s))

FairSvc == InitSvc /\ [][NextSvcTasks]_vars /\ SessFairness /\ TaskFairness

\* a burst of publishes for one resource while no holder of a channel reads:
\* the callers subscribe and publish, the consumption loops run, and the
\* stream handlers are not scheduled (their clients do not read); no context
\* is cancelled, so no watcher or context-merging task has a step to take
BurstProject == "p1"

InitBurst == Init /\ mode \in {"mem", "kafka", "stream"}

BurstMemPublish ==
  /\ mode = "mem" /\ fault = NoFault
  /\ nPub < MaxBurst
  /\ MemPublishUpdate(BurstProject)
  /\ UNCHANGED calls

BurstKPublish ==
  /\ mode = "kafka" /\ fault = NoFault /\ closeRet = "-"
  /\ nPub < MaxBurst
  /\ KafkaPublish("bg", BurstProject, "ok", "dial", "ok")
  /\ UNCHANGED <<mode, commMethod, issues, lastCall, calls, fault, got, overflow, notKafka>>
  /\ UNCHANGED unsub

BurstNotify ==
  /\ mode = "stream" /\ fault = NoFault
  /\ nPub < MaxBurst
  /\ notifySubscribers(BurstProject)
  /\ UNCHANGED <<mode, commMethod, issues, lastCall, calls, memSubs, hPc, hRet, gPc, gMsg, subscribedProjectID, updateCh,
                 inMemoryCh, hProj, hCh, errCh, sCtx, subsHist, got>>
  /\ UNCHANGED unsub

NextBurst ==
  \/ MemSubscribe(BurstProject)
  \/ BurstMemPublish
  \/ KSubscribe("bg", BurstProject)
  \/ BurstKPublish
  \/ \E r \in Readers : LoopRead(r)
  \/ \E r \in Readers : LoopDistribute(r)
  \/ \E s \in Sessions : SessOpen(s)
  \/ \E s \in Sessions : SessRecv(s, [action |-> "subscribe", pid |-> BurstProject])
  \/ \E s \in Sessions : SessCleanup(s)
  \/ \E s \in Sessions : SessSubscribe(s)
  \/ BurstNotify

BurstSpec == InitBurst /\ [][NextBurst]_vars

\* construction and publishing over a cluster whose nodes may be down and
\* whose topic may be missing
MaxNodes == 2

\* what the constructor meets at one configured node: the dial fails, the
\* controller cannot be found or dialled, or CreateTopics answers
NodeOutcomes == {"down", "nocontroller", "created", "exists", "error"}

NodeLists == UNION {[1..n -> NodeOutcomes] : n \in 1..MaxNodes}

\* the loop of NewKafkaBroker over the configured nodes from node i on: the
\* value of created after it
RECURSIVE CreateLoop(_, _)
CreateLoop(nodes, i) ==
  IF i > Len(nodes) THEN FALSE
  ELSE IF nodes[i] \in {"created", "exists"} THEN TRUE
  ELSE CreateLoop(nodes, i + 1)

\* the error NewKafkaBroker returns: a missing topic is only logged
NewKafkaBrokerErr(nodes) == "nil"

\* strings.ToLower on the values of COMMUNICATION_METHOD
ToLower(m) == CASE m = "Kafka" -> "kafka" [] m = "KAFKA" -> "kafka" [] OTHER -> m

\* the backend NewMessageBroker builds for a value of COMMUNICATION_METHOD
FactoryKind(m) == IF ToLower(m) = "kafka" THEN "kafka" ELSE "memory"

\* the path StreamProjectUpdates and notifySubscribers take for it
ServicePath(m) == IF m = commMethodKafka THEN "kafka" ELSE "stream"

\* a process that starts with any value of COMMUNICATION_METHOD
InitNew == mode = "new" /\ commMethod \in Methods /\ InitState

\* NewMessageBroker(): a COMMUNICATION_METHOD that reads "kafka" in lower case
\* builds the KafkaBroker over KAFKA_BROKERS, anything else the InMemoryBroker.
\*   method  what os.Getenv("COMMUNICATION_METHOD") returns
NewMessageBroker(method, nodes) ==
  /\ mode = "new" /\ method = commMethod
  /\ LET err == IF FactoryKind(method) = "kafka" THEN NewKafkaBrokerErr(nodes) ELSE "nil" IN
       /\ lastCall' = [op |-> "NewMessageBroker", ret |-> err, upd |-> "-"]
       /\ mode' = IF err # "nil" THEN "new"
                  ELSE IF FactoryKind(method) = "kafka" THEN "kafka" ELSE "mem"
  /\ IF FactoryKind(method) = "kafka" /\ CreateLoop(nodes, 1)
     THEN topic' = TRUE ELSE topic' \in BOOLEAN
  /\ UNCHANGED <<chanVars, nPub, calls, fault, memSubs, histVars, svcVars, lastPub,
                 kSubs, kReaders, rdMade, rdClosed, loops, wrClosed, kDone, closeRet,
                 log, groupOff, watchers, helpers, ctxDone>>
  /\ UNCHANGED <<unsub, issues, commMethod>>

\* PublishUpdate under context.Background() with every outcome of the writes
\* and of the provisioning
PubPublish(p, w1, prov, w2) ==
  /\ mode = "kafka" /\ fault = NoFault /\ closeRet = "-"
  /\ nPub < MaxPub
  /\ KafkaPublish("bg", p, w1, prov, w2)
  /\ UNCHANGED <<mode, commMethod, issues, lastCall, calls, fault, got, overflow, notKafka>>
  /\ UNCHANGED unsub

\* the topic is deleted on the cluster
TopicDeleted ==
  /\ mode = "kafka" /\ topic
  /\ topic' = FALSE
  /\ UNCHANGED <<mode, commMethod, issues, lastCall, chanVars, nPub, calls, fault, memSubs, histVars, svcVars,
                 lastPub, kSubs, kReaders, rdMade, rdClosed, loops, wrClosed, kDone,
                 closeRet, log, groupOff, watchers, helpers, ctxDone>>
  /\ UNCHANGED unsub

NextProvision ==
  \/ \E method \in Methods, nodes \in NodeLists : NewMessageBroker(method, nodes)
  \/ \E p \in Projects, w1 \in {"ok", "missing", "fail"},
        prov \in {"dial", "exists", "error", "created"}, w2 \in {"ok", "fail"} :
          PubPublish(p, w1, prov, w2)
  \/ TopicDeleted
  \/ \E p \in Projects : KSubscribe("bg", p)
  \/ \E r \in Readers : LoopRead(r)
  \/ \E r \in Readers : LoopDistribute(r)

ProvisionSpec == InitNew /\ [][NextProvision]_vars

\* ------------------------------------------------------------- properties
\* the events channel c carried so far, oldest first
Carried(c) == got[c] \o chBuf[c]

Increasing(q) == \A i, j \in 1..Len(q) : i < j => q[i].n < q[j].n

\* channel c is registered for resource p in a registry
Registered(p, c) ==
  \/ c \in Lookup(memSubs, p)
  \/ c \in Lookup(kSubs, p)
  \/ c \in Range(LookupList(svcSubs, p))

RegisteredSomewhere(c) == \E p \in RequestIds : Registered(p, c)

\* the channels session s used for its subscriptions
SessChans(s) == {subsHist[s][i].ch : i \in 1..Len(subsHist[s])}

\* the handler and the receive goroutine of session s are over
Ended(s) == hPc[s] = "done" /\ gPc[s] = "done"

\* nothing has ended session s from outside: no cancellation, no end of the
\* client's messages, no failed Send, no Close of the broker, no panic
Open(s) ==
  /\ hPc[s] \notin {"none", "failed"}
  /\ sCtx[s] # "cancelled"
  /\ gPc[s] # "done" /\ errCh[s] = "empty"
  /\ hRet[s] \in {"-", "nil"}
  /\ closeRet = "-" /\ fault = NoFault

\* C1: a channel whose buffer never filled carries the events of its resource
\* in the order of their publishes, each at most once.
C1_ReadOrderIsPublishOrder ==
  \A c \in Chans : ~overflow[c] => Increasing(Carried(c))

C3_UnsubscribeRemovesOnlyCh ==
  [][\A p \in Projects, ch \in Chans :
       (MemUnsubscribe(p, ch) \/ KUnsubscribe(p, ch)) =>
         /\ \A c \in Chans \ {ch} :
              Registered(p, c) => (c \in Lookup(memSubs', p) \/ c \in Lookup(kSubs', p))
         /\ Lookup(kSubs, p) \ {ch} # {} => kReaders' = kReaders /\ rdClosed' = rdClosed]_vars

\* C4: once a session has ended, none of its channels is in a registry.
C4_EndedSessionNotRegistered ==
  \A s \in Sessions : Ended(s) =>
    /\ inMemoryCh[s] # 0 => ~RegisteredSomewhere(inMemoryCh[s])
    /\ \A c \in SessChans(s) : watchers[c].pc # "wait" => ~RegisteredSomewhere(c)

\* C5: no send is attempted on a closed channel.
C5_NoSendOnClosed == fault # SendOnClosed

\* C6: the teardown of a subscription is never made twice, and is made once
\* the session has ended.
C6_TeardownExactlyOnce ==
  \A s \in Sessions : \A i \in 1..Len(subsHist[s]) :
    /\ subsHist[s][i].torn <= 1
    /\ Ended(s) => subsHist[s][i].torn = 1

\* C7: when an open session whose handler is running has processed a
\* "subscribe" message, its channel is registered under the resource requested
\* last and under no other, and each earlier subscription was torn down
\* exactly once.
C7_OneActiveSubscription ==
  \A s \in Sessions :
    (Open(s) /\ hPc[s] \in {"start", "loop"} /\ gPc[s] = "recv" /\ subsHist[s] # << >>) =>
      LET h == subsHist[s]
          last == h[Len(h)] IN
        /\ last.pid = subscribedProjectID[s]
        /\ \A p \in RequestIds : Registered(p, last.ch) <=> p = last.pid
        /\ \A c \in SessChans(s) \ {last.ch} : ~RegisteredSomewhere(c)
        /\ \A i \in 1..(Len(h) - 1) : h[i].torn = 1

\* C8: while a session with a subscription is open, its delivery loop is
\* running (or about to start) and reads the channel of that subscription.
C8_DeliveryLoopRunning ==
  \A s \in Sessions :
    (Open(s) /\ gPc[s] = "recv" /\ subsHist[s] # << >>) =>
      /\ hPc[s] \in {"start", "loop"}
      /\ hPc[s] = "loop" => hCh[s] = subsHist[s][Len(subsHist[s])].ch

\* C9: after Close() of the durable broker returned, with or without an
\* error, every reader and every registered channel are closed, the writer is
\* closed unless its Close() was the error, and no channel was closed twice.
C9_CloseClosesEverything ==
  /\ fault # CloseOfClosed
  /\ closeRet # "-" =>
       /\ closeRet = "nil" => wrClosed
       /\ \A p \in DOMAIN kReaders : kReaders[p] \in rdClosed
       /\ \A c \in AllOf(kSubs) : chClosed[c]

\* every background task of the durable broker is over
TasksOver ==
  /\ \A c \in Chans : watchers[c].pc # "wait"
  /\ \A x \in Ctxs : helpers[x] = 0
  /\ \A r \in Readers : loops[r].pc \in {"none", "done"}

\* C10: after Close() of the durable broker returned, every consumption
\* loop, context-watcher task and context-merging task eventually ends.
C10_TasksEndAfterClose ==
  [](closeRet # "-" => <>(TasksOver \/ fault # NoFault))

\* the handler of session s sits in (or is about to enter) its delivery loop
InLoop(s) == hPc[s] \in {"start", "loop", "failed"}

\* C11: after ProjectService.Close() returned during shutdown, the delivery
\* loop of every session that is open eventually exits (or the process has
\* ended in a panic), with the in-process and with the durable backend.
C11_LoopsExitAfterClose ==
  [](closeRet # "-" => <>(fault # NoFault \/ \A s \in Sessions : ~InLoop(s)))

\* the first n elements of q
FirstN(q, n) == SubSeq(q, 1, IF Len(q) < n THEN Len(q) ELSE n)

\* the records of the log the consumption loops have handed to distributeUpdate
Distributed(p) ==
  groupOff[p] - Cardinality({r \in Readers : loops[r].pid = p /\ loops[r].pc = "dist"})

FannedOut(cs, e) ==
  /\ fault' = NoFault
  /\ \A c \in cs : ~Full(c) => chBuf'[c] = Append(chBuf[c], e)

\* C13: a publish under a live context does not block or fail on a full
\* buffer: every channel registered for the resource that has free space
\* gets the event exactly once, whatever the other buffers hold, and the
\* publish returns nil (in-process broker, notifySubscribers, distributeUpdate).
C13_PublishReachesEveryFreeChannel ==
  [][/\ \A p \in Projects :
          MemPublish(p) =>
            FannedOut(MemTargets(p), Event(p, nPub + 1)) /\ lastPub'.ret = "nil"
     /\ \A p \in Projects :
          SvcUpdateProjectWithIssue(p) /\ mode = "stream" =>
            FannedOut(Range(LookupList(svcSubs, p)), Event(p, nPub + 1))
     /\ \A r \in Readers :
          LoopDistribute(r) => FannedOut(KafkaTargets(loops[r].pid), loops[r].msg)]_vars

\* C14: when the Send to one session's client fails, the handler returns the
\* Send error and that session's subscription is removed, while every
\* channel of another session stays registered where it was, and nothing
\* faults.
C14_SendFailureIsolated ==
  [][\A s \in Sessions :
       SessSendFailed(s) =>
         /\ hRet'[s] = "senderr"
         /\ fault' = NoFault
         /\ \A c \in SessChans(s) : ~RegisteredSomewhere(c)'
         /\ \A p \in RequestIds, c \in Chans \ SessChans(s) :
              Registered(p, c) => Registered(p, c)']_vars

\* C15: an "update" message publishes only when its resourceID is the one
\* the session is subscribed to; an update for another resource, or before
\* any subscription, publishes nothing, and no update changes the session's
\* subscription or a registry.
C15_UpdateOnlyForOwnSubscription ==
  [][\A s \in Sessions :
       SessUpdate(s) =>
         /\ nPub' # nPub =>
              gMsg[s].pid = subscribedProjectID[s] /\ subscribedProjectID[s] # ""
         /\ nPub' = nPub =>
              chBuf' = chBuf /\ log' = log /\ offered' = offered /\ fault' = fault
         /\ subscribedProjectID' = subscribedProjectID
         /\ updateCh' = updateCh /\ inMemoryCh' = inMemoryCh
         /\ svcSubs' = svcSubs /\ kSubs' = kSubs /\ kReaders' = kReaders
         /\ memSubs' = memSubs /\ subsHist' = subsHist]_vars

\* a session subscribed to one resource has received an update for another
\* existing resource
C15_Witness ==
  \E s \in Sessions :
    /\ gPc[s] = "handle" /\ gMsg[s].action = "update"
    /\ gMsg[s].pid \in Projects /\ subscribedProjectID[s] \in Projects
    /\ gMsg[s].pid # subscribedProjectID[s]
    /\ fault = NoFault /\ nPub < MaxPub

\* C16: a failure of the publish or of the notification never fails the
\* mutation: UpdateProjectWithIssue returns success whenever the repository
\* add and read succeed, and CreateIssue returns the created issue without
\* error whatever the follow-up UpdateProjectWithIssue does.
C16_MutationSucceeds ==
  [][/\ \A p \in Projects :
          SvcUpdateProjectWithIssue(p) => lastCall'.ret = "ok"
     /\ \A p \in Projects, repo \in {"ok", "add", "read"} :
          IssCreateIssue(p, repo) => lastCall'.ret = "ok"]_vars

\* C17: when the durable backend is selected and no configured node can be
\* dialled at construction, NewMessageBroker returns an error and no broker.
C17_UnreachableClusterFailsConstruction ==
  [][\A nodes \in NodeLists :
       NewMessageBroker("kafka", nodes) /\ (\A i \in DOMAIN nodes : nodes[i] = "down") =>
         lastCall'.ret # "nil" /\ mode' = "new"]_vars

\* C18: one durable PublishUpdate makes one or two write attempts; the second
\* is made only after the first failed with the unknown-topic error and the
\* topic was then created; any other failure is not retried; a failed retry
\* gives an error; nil is returned only when one of the writes succeeded, and
\* then the record is in the log once.
C18_AtMostOneRetry ==
  [][\A p \in Projects, w1 \in {"ok", "missing", "fail"},
        prov \in {"dial", "exists", "error", "created"}, w2 \in {"ok", "fail"} :
       PubPublish(p, w1, prov, w2) =>
         /\ lastPub'.writes \in {1, 2}
         /\ lastPub'.writes = 2 => w1 = "missing" /\ prov = "created"
         /\ w1 = "fail" => lastPub'.writes = 1 /\ lastPub'.ret = "err"
         /\ lastPub'.writes = 2 /\ w2 = "fail" => lastPub'.ret = "err"
         /\ lastPub'.ret = "nil" => w1 = "ok" \/ (lastPub'.writes = 2 /\ w2 = "ok")
         /\ lastPub'.ret = "nil" <=> log' = Append(log, Event(p, nPub + 1))
         /\ lastPub'.ret # "nil" => log' = log]_vars

\* a publish wrote twice: the topic was missing, was created, and the retry failed
C18_Witness == lastPub.writes = 2 /\ lastPub.ret = "err" /\ topic /\ nPub > Len(log)

\* C19: "already exists" from topic creation counts as success on both
\* paths: the constructor takes the topic as created, and a publish whose
\* write failed with the unknown-topic error still retries the write once.
C19_AlreadyExistsIsSuccess ==
  [][/\ \A nodes \in NodeLists :
          NewMessageBroker("kafka", nodes) /\ (\E i \in DOMAIN nodes : nodes[i] = "exists") =>
            topic'
     /\ \A p \in Projects, w2 \in {"ok", "fail"} :
          PubPublish(p, "missing", "exists", w2) => lastPub'.writes = 2]_vars

\* the readers made for resource p that were not closed
LiveReaders(p) == {r \in Readers : loops[r].pid = p /\ r \notin rdClosed}

\* C20: before Close, the durable broker holds a reader for a resource
\* exactly when a channel is registered for it, and never more than one
\* open reader per resource, whatever Subscribe, Unsubscribe and context
\* cancellations came before.
C20_ReaderIffSubscribed ==
  mode = "kafka" /\ closeRet = "-" =>
    \A p \in RequestIds :
      /\ p \in DOMAIN kReaders <=> Lookup(kSubs, p) # {}
      /\ Cardinality(LiveReaders(p)) <= 1

\* the consumeMessages tasks of resource p that have not returned
RunningLoops(p) == {r \in Readers : loops[r].pid = p /\ loops[r].pc \in {"read", "dist"}}

\* C21: once the reader of a resource was closed (its last subscriber
\* unsubscribed), the consumption loop started with that reader ends, so
\* that a later Subscribe finds no older loop of the resource running.
C21_LoopEndsWithReader ==
  \A r \in Readers :
    [](r \in rdClosed => <>(r \notin RunningLoops(loops[r].pid) \/ fault # NoFault))

\* C22: an event is placed only on channels registered for the event's own
\* resource: whenever a buffer grows, the event appended carries a
\* resourceID under which the channel is registered at that moment, in the
\* in-process fan-outs and in the durable consumption loop.
C22_OnlyOwnResource ==
  [][\A c \in Chans :
       Len(chBuf'[c]) > Len(chBuf[c]) =>
         Registered(chBuf'[c][Len(chBuf'[c])].pid, c)]_vars

\* a consumption loop of p1 has gone past a record of p2, and a channel of p1
\* holds events, all of p1
C22_Witness ==
  /\ mode = "kafka" /\ fault = NoFault
  /\ \A r \in Readers : loops[r].pc # "dist"
  /\ \E i \in 1..Len(log) : log[i].pid = "p2" /\ i <= groupOff["p1"]
  /\ \E c \in Lookup(kSubs, "p1") :
       /\ chBuf[c] # << >>
       /\ \A i \in 1..Len(chBuf[c]) : chBuf[c][i].pid = "p1"
       /\ \A q \in RequestIds \ {"p1"} : ~Registered(q, c)

\* C23: no in-process registry maps a resourceID to an empty collection of
\* channels: neither InMemoryBroker.subscribers nor ProjectService.subscribers.
C23_NoEmptyEntry ==
  /\ \A p \in DOMAIN memSubs : memSubs[p] # {}
  /\ mode = "stream" => \A p \in DOMAIN svcSubs : svcSubs[p] # << >>

\* C24: Unsubscribe(resourceID, ch) for a channel that is not registered for
\* resourceID (never was, or was removed before) leaves the broker's registry,
\* readers and channels as they were, on both backends.
C24_UnsubscribeIdempotent ==
  [][\A p \in Projects, ch \in Chans :
       (MemUnsubscribe(p, ch) \/ KUnsubscribe(p, ch)) /\ ~Registered(p, ch) =>
         /\ memSubs' = memSubs /\ kSubs' = kSubs
         /\ kReaders' = kReaders /\ rdClosed' = rdClosed
         /\ chClosed' = chClosed /\ fault' = NoFault]_vars

\* C25: in in-process mode the project service subscribes and publishes
\* through the broker the factory gave it: every channel a session has
\* registered is registered in that broker under the same resourceID, and
\* every event published went through the broker's PublishUpdate.
C25_ThroughTheBroker ==
  mode = "stream" =>
    /\ \A p \in DOMAIN svcSubs : Range(svcSubs[p]) \subseteq Lookup(memSubs, p)
    /\ nPub > 0 => lastPub.ret # "-"

\* ------------------------------------------------------------- IssuesService
\* Status of issues.proto; a request may also carry STATUS_UNSPECIFIED
Statuses == {"NEW", "ASSIGNED", "IN_PROGRESS", "RESOLVED", "CLOSED"}
\* the users GetUser finds
Users == {"u1", "u2"}
\* the optional assignee_id of a request: "nil" is the field left out, "" the
\* empty string, "ux" the UUID of a user GetUser does not find
AssigneeArgs == {"nil", "", "ux"} \cup Users
\* the values the rule string.uuid of issues.proto accepts
Uuids == {"ux"} \cup Users
Resolutions == {"UNSPECIFIED", "FIXED"}
\* UpdateIssueRequest: fields says whether summary, description, type and
\* priority pass the basic validation
UpdateRequests ==
  [status : Statuses \cup {"STATUS_UNSPECIFIED"}, assignee : AssigneeArgs,
   resolution : Resolutions, fields : {"ok", "bad"}]

\* IsValidStatusTransition: the validTransitions table
validTransitions ==
  [st \in Statuses |->
     CASE st = "NEW" -> {"ASSIGNED"}
       [] st = "ASSIGNED" -> {"IN_PROGRESS", "RESOLVED"}
       [] st = "IN_PROGRESS" -> {"RESOLVED", "CLOSED"}
       [] st = "RESOLVED" -> {"CLOSED"}
       [] st = "CLOSED" -> {}]

\* IsValidStatusTransition(currentStatus, newStatus) returns nil
IsValidStatusTransition(currentStatus, newStatus) ==
  /\ currentStatus \in DOMAIN validTransitions
  /\ currentStatus = newStatus \/ newStatus \in validTransitions[currentStatus]

\* UpdateIssue: assigneeUpdated, hasAssignee, autoAdjustStatus and the status
\* the request carries after the adjustment
assigneeUpdated(req) == req.assignee # "nil"
hasAssignee(req) == assigneeUpdated(req) /\ req.assignee # ""
autoAdjustStatus(issue, req) == hasAssignee(req) /\ issue.assignee = ""
AdjustedStatus(issue, req) == IF autoAdjustStatus(issue, req) THEN "ASSIGNED" ELSE req.status

\* UpdateIssue: "assignee is required when status is Assigned or In Progress"
AssigneeRequired(issue, req) ==
  /\ AdjustedStatus(issue, req) \in {"ASSIGNED", "IN_PROGRESS"}
  /\ \/ assigneeUpdated(req) /\ ~hasAssignee(req)
     \/ ~assigneeUpdated(req) /\ issue.assignee = ""

\* req.Validate() of a request returns nil: summary and description have an
\* allowed length, and an assignee_id that is present is a UUID
ValidateUpdate(req) == req.fields = "ok" /\ (req.assignee = "nil" \/ req.assignee \in Uuids)
ValidateCreate(a) == a = "nil" \/ a \in Uuids

\* UpdateIssue rejects the request: each line is one of its error returns, in
\* the order of the code
UpdateRejected(issue, req) ==
  \/ ~ValidateUpdate(req)
  \/ issue = NoIssue
  \/ req.status = "STATUS_UNSPECIFIED"
  \/ hasAssignee(req) /\ req.assignee # issue.assignee /\ req.assignee \notin Users
  \/ /\ assigneeUpdated(req) /\ ~hasAssignee(req) /\ issue.assignee # ""
     /\ req.status \in {"ASSIGNED", "IN_PROGRESS"}
  \/ AdjustedStatus(issue, req) \in {"RESOLVED", "CLOSED"} /\ req.resolution = "UNSPECIFIED"
  \/ AssigneeRequired(issue, req)
  \/ ~autoAdjustStatus(issue, req) /\ ~IsValidStatusTransition(issue.status, AdjustedStatus(issue, req))

\* UpdateIssue: the issue it stores for a request it accepts
Updated(issue, req) ==
  [status |-> AdjustedStatus(issue, req),
   assignee |-> IF assigneeUpdated(req) THEN req.assignee
                ELSE IF AdjustedStatus(issue, req) = "NEW" THEN "" ELSE issue.assignee,
   resolution |-> IF req.resolution # "UNSPECIFIED" THEN req.resolution ELSE issue.resolution]

\* everything but the issue table and the last call
pubsubVars == <<mode, commMethod, memSubs, hPc, hRet, gPc, gMsg, subscribedProjectID, updateCh,
                inMemoryCh, hProj, hCh, errCh, sCtx, subsHist, got, unsub>>

\* IssuesService.UpdateIssue(req) for the issue i
UpdateIssue(i, req) ==
  /\ mode = "stream" /\ fault = NoFault
  /\ IF UpdateRejected(issues[i], req)
     THEN /\ issues' = issues
          /\ lastCall' = [op |-> "UpdateIssue", ret |-> "err", upd |-> "-"]
     ELSE /\ issues' = [issues EXCEPT ![i] = Updated(issues[i], req)]
          /\ lastCall' = [op |-> "UpdateIssue", ret |-> "ok", upd |-> "-"]
  /\ UNCHANGED <<pubsubVars, calls, nPub, fault, offered, overflow, svcSubs, kVars, chanVars>>

\* the status CreateIssue gives a new issue
CreatedStatus(a) == IF a # "nil" /\ a # "" THEN "ASSIGNED" ELSE "NEW"

\* CreateIssue: the issue it builds
Created(a) ==
  [status |-> CreatedStatus(a), assignee |-> IF a # "nil" THEN a ELSE "",
   resolution |-> "UNSPECIFIED"]

\* the id of the next issue, 0 when the table is full
NextIssueId == IF \E i \in IssueIds : issues[i] = NoIssue
               THEN CHOOSE i \in IssueIds : issues[i] = NoIssue /\ \A j \in 1..(i - 1) : issues[j] # NoIssue
               ELSE 0

\* IssuesService.CreateIssue(req) with assignee a in project p: the request is
\* rejected when it is not valid, for an unknown project (known = FALSE) or an
\* unknown assignee;
\* otherwise the issue is saved and notifyProjectService calls
\* UpdateProjectWithIssue, an error of which is logged
CreateIssue(a, p, known, repo) ==
  /\ mode = "stream" /\ fault = NoFault
  /\ NextIssueId # 0
  /\ IF ~ValidateCreate(a) \/ ~known \/ (a # "nil" /\ a # "" /\ a \notin Users)
     THEN /\ issues' = issues
          /\ lastCall' = [op |-> "CreateIssue", ret |-> "err", upd |-> "-"]
          /\ UNCHANGED <<nPub, fault, offered, overflow, svcSubs, kVars, chanVars>>
     ELSE /\ issues' = [issues EXCEPT ![NextIssueId] = Created(a)]
          /\ UpdateProjectWithIssue(p, repo)
          /\ lastCall' = [op |-> "CreateIssue", ret |-> Returned("ok"),
                          upd |-> Returned(UpdateResult(repo))]
  /\ UNCHANGED <<pubsubVars, calls>>

\* createAndSaveIssue of the seeder: an issue saved with status ASSIGNED and
\* the assignee selectRandomAssignee picked, a user or the empty string
Seeded(a) == [status |-> "ASSIGNED", assignee |-> a, resolution |-> "UNSPECIFIED"]

\* the issue table at start-up: empty, or with SEED_RELATIONSHIPS=true the
\* issues the seeder saved
SeededTables ==
  {t \in [IssueIds -> {NoIssue} \cup {Seeded(a) : a \in Users \cup {""}}] :
     \A i \in IssueIds : t[i] # NoIssue => \A j \in 1..(i - 1) : t[j] # NoIssue}

\* the issues service over a project service that holds no session
InitIssues ==
  /\ mode = "stream" /\ commMethod = Configured(mode)
  /\ issues \in SeededTables /\ InitBrokers

NextIssues ==
  \/ \E a \in AssigneeArgs, p \in Projects, known \in BOOLEAN, repo \in {"ok", "add", "read"} :
       CreateIssue(a, p, known, repo)
  \/ \E i \in IssueIds, req \in UpdateRequests : UpdateIssue(i, req)

IssueSpec == InitIssues /\ [][NextIssues]_vars

\* C26: every successful UpdateIssue leaves the status of the issue as it was
\* or moves it along one of NEW->ASSIGNED, ASSIGNED->IN_PROGRESS,
\* ASSIGNED->RESOLVED, IN_PROGRESS->RESOLVED, IN_PROGRESS->CLOSED,
\* RESOLVED->CLOSED; a rejected request leaves the stored issue unchanged; an
\* issue that reached CLOSED stays CLOSED
C26_OnlyAllowedTransitions ==
  [][\A i \in IssueIds :
       /\ issues[i] # NoIssue /\ issues'[i].status # issues[i].status =>
            issues'[i].status \in validTransitions[issues[i].status]
       /\ lastCall'.op = "UpdateIssue" /\ lastCall'.ret = "err" => issues'[i] = issues[i]
       /\ issues[i].status = "CLOSED" => issues'[i].status = "CLOSED"]_vars

\* the status of a stored issue agrees with its assignee
StatusMatchesAssignee(issue) ==
  /\ issue.status \in {"ASSIGNED", "IN_PROGRESS"} => issue.assignee # ""
  /\ issue.status = "NEW" => issue.assignee = ""

\* C27: after every successful CreateIssue or UpdateIssue, an issue whose
\* status is ASSIGNED or IN_PROGRESS has a non-empty assignee and an issue
\* whose status is NEW has an empty one; CreateIssue stores ASSIGNED exactly
\* when the request carries a non-empty assignee, and NEW otherwise
C27_StatusMatchesAssignee ==
  [][/\ lastCall'.op \in {"CreateIssue", "UpdateIssue"} /\ lastCall'.ret = "ok" =>
          \A i \in IssueIds : issues'[i] # NoIssue => StatusMatchesAssignee(issues'[i])
     /\ \A a \in AssigneeArgs, p \in Projects, known \in BOOLEAN, repo \in {"ok", "add", "read"} :
          CreateIssue(a, p, known, repo) /\ issues' # issues =>
            issues'[NextIssueId].status = IF a \notin {"nil", ""} THEN "ASSIGNED" ELSE "NEW"]_vars

\* C28: for every value of COMMUNICATION_METHOD, other spellings of kafka
\* included, the backend NewMessageBroker built is the durable one exactly
\* when the project service takes the durable path
C28_FactoryAgreesWithService ==
  mode # "new" => (mode = "kafka" <=> ServicePath(commMethod) = "kafka")

\* C29: a durable PublishUpdate leaves no task behind: the helper tasks
\* started for a caller context are all gone some time after the calls
\* returned, also for a context that is never cancelled and before Close
C29_HelpersEnd ==
  \A x \in Ctxs : [](helpers[x] > 0 => <>(helpers[x] = 0 \/ fault # NoFault))

\* C30: once subscribe(B) of a session was processed after its subscribe(A),
\* A # B, no event of A is sent to the client: the events of A that are still
\* buffered in the channel of the session are not relayed
C30_NoEventOfFormerSubscription ==
  [][\A s \in Sessions, a \in Projects :
       /\ SessDeliver(s, TRUE)
       /\ subscribedProjectID[s] \in Projects \ {a}
       /\ \E k \in DOMAIN subsHist[s] : subsHist[s][k].pid = a
       => Head(chBuf[hCh[s]]).pid # a]_vars

====
